---- MODULE Spec2Model ----
(***************************************************************************)
(* The device attribute codec of netlink-packet-wireguard                  *)
(* (src/nlas/device.rs): WgDeviceAttrs as an Nla (value_len, kind,         *)
(* emit_value, is_nested) and as a Parseable (parse), over byte buffers.   *)
(*                                                                         *)
(* A byte is an integer 0..255 and a buffer a sequence of bytes.  An       *)
(* unsigned integer (u16, u32, u64) is held as its base-256 digits, most   *)
(* significant first, because TLC's integers are 32-bit signed;            *)
(* NativeEndian lays the digits out in the byte order of the build, which  *)
(* the variable bigEndian fixes.  A Rust String is held as its UTF-8       *)
(* bytes.  A panic (slice index out of range, copy_from_slice length       *)
(* mismatch) is an outcome of its own.                                     *)
(***************************************************************************)
EXTENDS Integers, Sequences, FiniteSets, TLC

VARIABLES bigEndian, pc, origin, attr, buffer, emitPanic, damaged, result

vars == <<bigEndian, pc, origin, attr, buffer, emitPanic, damaged, result>>

(***************************************************************************)
(* Bounds of the model.                                                    *)
(***************************************************************************)
\* longest arbitrary byte string (Unspec blob, interface name, raw payload)
MaxBlob == 2
\* longest constant-filled byte string (long names, over-long payloads)
MaxFill == 33
\* most peers in a Peers attribute
MaxPeers == 2

\* byte values the inputs are built from: NUL, a header-length look-alike,
\* 'a', a UTF-8 continuation byte, a UTF-8 two-byte lead, an invalid byte
ByteSamples == {0, 4, 97, 169, 195, 255}
\* byte values a damaged payload byte takes: a zero, the length of a bare
\* header, and a value past every length and kind of the model
CorruptBytes == {0, 4, 255}

Untouched == 0 - 1

Fill(b, n) == [i \in 1..n |-> b]

Reverse(s) == [i \in 1..Len(s) |-> s[Len(s) + 1 - i]]

RECURSIVE SeqsUpTo(_, _)
SeqsUpTo(S, n) ==
    IF n = 0 THEN {<<>>}
    ELSE LET shorter == SeqsUpTo(S, n - 1)
         IN  shorter \cup {Append(s, x) : s \in shorter, x \in S}

Front(s) == SubSeq(s, 1, Len(s) - 1)
From(s, i) == SubSeq(s, i + 1, Len(s))

(***************************************************************************)
(* Constants of the kernel's WireGuard netlink ABI (constants.rs).         *)
(***************************************************************************)
WG_KEY_LEN == 32

WGDEVICE_A_UNSPEC == 0
WGDEVICE_A_IFINDEX == 1
WGDEVICE_A_IFNAME == 2
WGDEVICE_A_PRIVATE_KEY == 3
WGDEVICE_A_PUBLIC_KEY == 4
WGDEVICE_A_FLAGS == 5
WGDEVICE_A_LISTEN_PORT == 6
WGDEVICE_A_FWMARK == 7
WGDEVICE_A_PEERS == 8

WGPEER_A_UNSPEC == 0
WGPEER_A_PUBLIC_KEY == 1
WGPEER_A_PRESHARED_KEY == 2
WGPEER_A_FLAGS == 3
WGPEER_A_ENDPOINT == 4
WGPEER_A_PERSISTENT_KEEPALIVE_INTERVAL == 5
WGPEER_A_LAST_HANDSHAKE_TIME == 6
WGPEER_A_RX_BYTES == 7
WGPEER_A_TX_BYTES == 8
WGPEER_A_ALLOWEDIPS == 9
WGPEER_A_PROTOCOL_VERSION == 10

WGALLOWEDIP_A_UNSPEC == 0
WGALLOWEDIP_A_FAMILY == 1
WGALLOWEDIP_A_IPADDR == 2
WGALLOWEDIP_A_CIDR_MASK == 3

AF_INET == 2
AF_INET6 == 10

(***************************************************************************)
(* The TLV primitive of netlink_packet_utils (nla.rs), as device.rs uses   *)
(* it: NLA header, alignment, NlaBuffer accessors, NlasIterator.           *)
(***************************************************************************)
NLA_HEADER_SIZE == 4
NLA_ALIGNTO == 4
NLA_F_NESTED == 32768
NLA_F_NET_BYTEORDER == 16384
NLA_TYPE_MASK == 16383
U16_RANGE == 65536

nla_align(n) == ((n + NLA_ALIGNTO - 1) \div NLA_ALIGNTO) * NLA_ALIGNTO

\* byteorder::NativeEndian: the digits of an integer as the build lays them out
NativeEndian(digits) == IF bigEndian THEN digits ELSE Reverse(digits)

\* a u16 held as an integer, to and from its two digits
U16Digits(n) == <<(n % U16_RANGE) \div 256, n % 256>>
U16Value(digits) == digits[1] * 256 + digits[2]

\* NlaBuffer::length, kind, nested_flag, value over a record's bytes
NlaBuffer_length(buf) == U16Value(NativeEndian(SubSeq(buf, 1, 2)))
NlaBuffer_rawkind(buf) == U16Value(NativeEndian(SubSeq(buf, 3, 4)))
NlaBuffer_kind(buf) == NlaBuffer_rawkind(buf) % (NLA_TYPE_MASK + 1)
NlaBuffer_nested_flag(buf) == (NlaBuffer_rawkind(buf) \div NLA_F_NESTED) % 2 = 1
NlaBuffer_value(buf) == SubSeq(buf, NLA_HEADER_SIZE + 1, NlaBuffer_length(buf))

\* NlaBuffer::new_checked: the header fits, the declared length fits the
\* buffer and covers the header
NlaBuffer_new_checked(buf) ==
    IF Len(buf) < NLA_HEADER_SIZE THEN [ok |-> FALSE, buf |-> buf]
    ELSE IF NlaBuffer_length(buf) > Len(buf) THEN [ok |-> FALSE, buf |-> buf]
    ELSE IF NlaBuffer_length(buf) < NLA_HEADER_SIZE THEN [ok |-> FALSE, buf |-> buf]
    ELSE [ok |-> TRUE, buf |-> buf]

\* NlasIterator: the items next() yields from `position` on; after an error
\* item the iterator is exhausted
RECURSIVE NlasIterator(_, _)
NlasIterator(buf, position) ==
    IF position >= Len(buf) THEN <<>>
    ELSE LET item == NlaBuffer_new_checked(From(buf, position))
         IN  IF item.ok
             THEN <<item>> \o NlasIterator(buf, position + nla_align(NlaBuffer_length(item.buf)))
             ELSE <<item>>

\* the header Nla::emit writes: length (value_len + header, as u16), then the
\* kind with the nested flag
NlaHeader(kindv, nested, vlen) ==
    NativeEndian(U16Digits(vlen + NLA_HEADER_SIZE))
        \o NativeEndian(U16Digits(kindv + (IF nested THEN NLA_F_NESTED ELSE 0)))

\* what Nla::emit writes for a value already laid out: header, value, zero padding
NlaRecord(kindv, nested, value) ==
    NlaHeader(kindv, nested, Len(value)) \o value
        \o Fill(0, nla_align(Len(value)) - Len(value))

\* Nla::buffer_len of a value of vlen bytes
NlaBufferLen(vlen) == nla_align(vlen) + NLA_HEADER_SIZE

(***************************************************************************)
(* Results.  A parser returns Ok(value) or Err(message); the unknown-kind  *)
(* error also carries the kind it formats into its message.                *)
(***************************************************************************)
NoKind == 0 - 1
Ok(v) == [ok |-> TRUE, val |-> v, err |-> "", kind |-> NoKind]
Err(msg) == [ok |-> FALSE, val |-> <<>>, err |-> msg, kind |-> NoKind]
ErrKind(msg, k) == [ok |-> FALSE, val |-> <<>>, err |-> msg, kind |-> k]
\* anyhow's .context(msg)? on a Result: the error is wrapped under msg
Context(r, msg) == IF r.ok THEN r ELSE Err(msg)

\* netlink_packet_utils::parsers
parse_u8(payload) ==
    IF Len(payload) # 1 THEN Err("invalid u8") ELSE Ok(payload)
parse_u16(payload) ==
    IF Len(payload) # 2 THEN Err("invalid u16") ELSE Ok(NativeEndian(payload))
parse_u32(payload) ==
    IF Len(payload) # 4 THEN Err("invalid u32") ELSE Ok(NativeEndian(payload))
parse_u64(payload) ==
    IF Len(payload) # 8 THEN Err("invalid u64") ELSE Ok(NativeEndian(payload))

\* String::from_utf8: whether the bytes are well-formed UTF-8
IsCont(b) == b >= 128 /\ b <= 191

RECURSIVE from_utf8_ok(_)
from_utf8_ok(s) ==
    IF s = <<>> THEN TRUE
    ELSE LET b == s[1]
             n == Len(s)
         IN  IF b < 128 THEN from_utf8_ok(Tail(s))
             ELSE IF b >= 194 /\ b <= 223
                  THEN n >= 2 /\ IsCont(s[2]) /\ from_utf8_ok(From(s, 2))
             ELSE IF b >= 224 /\ b <= 239
                  THEN /\ n >= 3
                       /\ IsCont(s[2])
                       /\ (b = 224 => s[2] >= 160)
                       /\ (b = 237 => s[2] <= 159)
                       /\ IsCont(s[3])
                       /\ from_utf8_ok(From(s, 3))
             ELSE IF b >= 240 /\ b <= 244
                  THEN /\ n >= 4
                       /\ IsCont(s[2])
                       /\ (b = 240 => s[2] >= 144)
                       /\ (b = 244 => s[2] <= 143)
                       /\ IsCont(s[3])
                       /\ IsCont(s[4])
                       /\ from_utf8_ok(From(s, 4))
             ELSE FALSE

\* parsers::parse_string: an empty payload is the empty string; one trailing
\* zero byte, when there is one, is dropped; the rest must be UTF-8
parse_string(payload) ==
    IF payload = <<>> THEN Ok(<<>>)
    ELSE LET slice == IF payload[Len(payload)] = 0 THEN Front(payload) ELSE payload
         IN  IF from_utf8_ok(slice) THEN Ok(slice) ELSE Err("invalid string")

\* <[u8; WG_KEY_LEN]>::try_from(&[u8]): the slice must have the array's length
try_into_key(payload) ==
    IF Len(payload) # WG_KEY_LEN THEN Err("could not convert slice to array")
    ELSE Ok(payload)

(***************************************************************************)
(* The peer and allowed-IP codecs (nlas/peer.rs, nlas/allowedip.rs), which *)
(* device.rs nests inside a Peers attribute.  An attribute value is a      *)
(* record of its variant, its payload bytes (digits for an integer) and,   *)
(* for AllowedIps, its groups.  An Endpoint holds the port's two digits    *)
(* followed by the 4 or 16 address bytes.                                  *)
(***************************************************************************)
SOCKET_ADDR_V4_LEN == 16
SOCKET_ADDR_V6_LEN == 28

AllowedIpAttr(variant, bytes) == [variant |-> variant, bytes |-> bytes]
PeerAttr(variant, bytes) == [variant |-> variant, bytes |-> bytes, ips |-> <<>>]
AllowedIps(groups) == [variant |-> "AllowedIps", bytes |-> <<>>, ips |-> groups]

WgAllowedIpAttrs_kind(a) ==
    CASE a.variant = "Unspec" -> WGALLOWEDIP_A_UNSPEC
      [] a.variant = "Family" -> WGALLOWEDIP_A_FAMILY
      [] a.variant = "IpAddr" -> WGALLOWEDIP_A_IPADDR
      [] a.variant = "Cidr" -> WGALLOWEDIP_A_CIDR_MASK

\* the payload bytes of one allowed-IP attribute
WgAllowedIpAttrs_value(a) ==
    IF a.variant = "Family" THEN NativeEndian(a.bytes) ELSE a.bytes

WgAllowedIpAttrs_parse(buf) ==
    LET payload == NlaBuffer_value(buf)
        k == NlaBuffer_kind(buf)
    IN  CASE k = WGALLOWEDIP_A_UNSPEC -> Ok(AllowedIpAttr("Unspec", payload))
          [] k = WGALLOWEDIP_A_FAMILY ->
                LET r == parse_u16(payload)
                IN  IF r.ok THEN Ok(AllowedIpAttr("Family", r.val))
                    ELSE Err("invalid WGALLOWEDIP_A_FAMILY value")
          [] k = WGALLOWEDIP_A_IPADDR ->
                IF Len(payload) \in {4, 16} THEN Ok(AllowedIpAttr("IpAddr", payload))
                ELSE Err("invalid WGALLOWEDIP_A_IPADDR value")
          [] k = WGALLOWEDIP_A_CIDR_MASK ->
                LET r == parse_u8(payload)
                IN  IF r.ok THEN Ok(AllowedIpAttr("Cidr", r.val))
                    ELSE Err("invalid WGALLOWEDIP_A_CIDR_MASK value")
          [] OTHER -> ErrKind("invalid NLA kind", k)

\* the records of a sequence of attributes, one after the other
RECURSIVE EmitAllowedIpAttrs(_)
EmitAllowedIpAttrs(group) ==
    IF group = <<>> THEN <<>>
    ELSE NlaRecord(WgAllowedIpAttrs_kind(group[1]), FALSE,
                   WgAllowedIpAttrs_value(group[1]))
             \o EmitAllowedIpAttrs(Tail(group))

\* WgAllowedIp: a nested container of kind 0 holding the group's attributes
WgAllowedIp_emit(group) == NlaRecord(0, TRUE, EmitAllowedIpAttrs(group))

RECURSIVE EmitAllowedIps(_)
EmitAllowedIps(groups) ==
    IF groups = <<>> THEN <<>>
    ELSE WgAllowedIp_emit(groups[1]) \o EmitAllowedIps(Tail(groups))

WgPeerAttrs_kind(a) ==
    CASE a.variant = "Unspec" -> WGPEER_A_UNSPEC
      [] a.variant = "PublicKey" -> WGPEER_A_PUBLIC_KEY
      [] a.variant = "PresharedKey" -> WGPEER_A_PRESHARED_KEY
      [] a.variant = "Flags" -> WGPEER_A_FLAGS
      [] a.variant = "Endpoint" -> WGPEER_A_ENDPOINT
      [] a.variant = "PersistentKeepalive" -> WGPEER_A_PERSISTENT_KEEPALIVE_INTERVAL
      [] a.variant = "LastHandshake" -> WGPEER_A_LAST_HANDSHAKE_TIME
      [] a.variant = "RxBytes" -> WGPEER_A_RX_BYTES
      [] a.variant = "TxBytes" -> WGPEER_A_TX_BYTES
      [] a.variant = "AllowedIps" -> WGPEER_A_ALLOWEDIPS
      [] a.variant = "ProtocolVersion" -> WGPEER_A_PROTOCOL_VERSION

\* the kernel's socket address layout: family, port in network order, then
\* the address (v4, zero-padded to 16 bytes) or flowinfo, address, scope (v6)
EmitSocketAddr(bytes) ==
    LET port == SubSeq(bytes, 1, 2)
        addr == From(bytes, 2)
    IN  IF Len(addr) = 4
        THEN NativeEndian(U16Digits(AF_INET)) \o port \o addr \o Fill(0, 8)
        ELSE NativeEndian(U16Digits(AF_INET6)) \o port \o Fill(0, 4) \o addr \o Fill(0, 4)

ParseSocketAddr(payload) ==
    IF Len(payload) = SOCKET_ADDR_V4_LEN
    THEN Ok(SubSeq(payload, 3, 4) \o SubSeq(payload, 5, 8))
    ELSE IF Len(payload) = SOCKET_ADDR_V6_LEN
    THEN Ok(SubSeq(payload, 3, 4) \o SubSeq(payload, 9, 24))
    ELSE Err("invalid socket address (should be 16 or 28 bytes)")

\* the payload bytes of one peer attribute
WgPeerAttrs_value(a) ==
    CASE a.variant \in {"Unspec", "PublicKey", "PresharedKey"} -> a.bytes
      [] a.variant \in {"Flags", "PersistentKeepalive", "RxBytes", "TxBytes",
                        "ProtocolVersion"} -> NativeEndian(a.bytes)
      [] a.variant = "LastHandshake" ->
            NativeEndian(SubSeq(a.bytes, 1, 8)) \o NativeEndian(SubSeq(a.bytes, 9, 16))
      [] a.variant = "Endpoint" -> EmitSocketAddr(a.bytes)
      [] a.variant = "AllowedIps" -> EmitAllowedIps(a.ips)

WgPeerAttrs_is_nested(a) == a.variant = "AllowedIps"

\* the attributes of one allowed-IP container, or the first error
RECURSIVE ParseAllowedIpGroup(_, _)
ParseAllowedIpGroup(items, group) ==
    IF items = <<>> THEN Ok(group)
    ELSE IF ~items[1].ok THEN Err("failed to parse WGPEER_A_ALLOWEDIPS")
    ELSE LET parsed == WgAllowedIpAttrs_parse(items[1].buf)
         IN  IF ~parsed.ok THEN Err("failed to parse WGPEER_A_ALLOWEDIPS")
             ELSE ParseAllowedIpGroup(Tail(items), Append(group, parsed.val))

RECURSIVE ParseAllowedIps(_, _)
ParseAllowedIps(items, ips) ==
    IF items = <<>> THEN Ok(AllowedIps(ips))
    ELSE IF ~items[1].ok THEN Err("failed to parse WGPEER_A_ALLOWEDIPS")
    ELSE LET group == ParseAllowedIpGroup(
                          NlasIterator(NlaBuffer_value(items[1].buf), 0), <<>>)
         IN  IF ~group.ok THEN group
             ELSE ParseAllowedIps(Tail(items), Append(ips, group.val))

PeerFixed(variant, r, msg) ==
    IF r.ok THEN Ok(PeerAttr(variant, r.val)) ELSE Err(msg)

WgPeerAttrs_parse(buf) ==
    LET payload == NlaBuffer_value(buf)
        k == NlaBuffer_kind(buf)
    IN  CASE k = WGPEER_A_UNSPEC -> Ok(PeerAttr("Unspec", payload))
          [] k = WGPEER_A_PUBLIC_KEY ->
                PeerFixed("PublicKey", try_into_key(payload),
                          "invalid WGPEER_A_PUBLIC_KEY value")
          [] k = WGPEER_A_PRESHARED_KEY ->
                PeerFixed("PresharedKey", try_into_key(payload),
                          "invalid WGPEER_A_PRESHARED_KEY value")
          [] k = WGPEER_A_FLAGS ->
                PeerFixed("Flags", parse_u32(payload), "invalid WGPEER_A_FLAGS value")
          [] k = WGPEER_A_ENDPOINT ->
                PeerFixed("Endpoint", ParseSocketAddr(payload),
                          "invalid WGPEER_A_ENDPOINT value")
          [] k = WGPEER_A_PERSISTENT_KEEPALIVE_INTERVAL ->
                PeerFixed("PersistentKeepalive", parse_u16(payload),
                          "invalid WGPEER_A_PERSISTENT_KEEPALIVE_INTERVAL value")
          [] k = WGPEER_A_LAST_HANDSHAKE_TIME ->
                IF Len(payload) # 16
                THEN Err("invalid WGPEER_A_LAST_HANDSHAKE_TIME value")
                ELSE Ok(PeerAttr("LastHandshake",
                                 NativeEndian(SubSeq(payload, 1, 8))
                                     \o NativeEndian(SubSeq(payload, 9, 16))))
          [] k = WGPEER_A_RX_BYTES ->
                PeerFixed("RxBytes", parse_u64(payload), "invalid WGPEER_A_RX_BYTES value")
          [] k = WGPEER_A_TX_BYTES ->
                PeerFixed("TxBytes", parse_u64(payload), "invalid WGPEER_A_TX_BYTES value")
          [] k = WGPEER_A_ALLOWEDIPS ->
                ParseAllowedIps(NlasIterator(payload, 0), <<>>)
          [] k = WGPEER_A_PROTOCOL_VERSION ->
                PeerFixed("ProtocolVersion", parse_u32(payload),
                          "invalid WGPEER_A_PROTOCOL_VERSION value")
          [] OTHER -> ErrKind("invalid NLA kind", k)

\* the records of a peer's attributes, one after the other
RECURSIVE EmitPeerAttrs(_)
EmitPeerAttrs(group) ==
    IF group = <<>> THEN <<>>
    ELSE NlaRecord(WgPeerAttrs_kind(group[1]), WgPeerAttrs_is_nested(group[1]),
                   WgPeerAttrs_value(group[1]))
             \o EmitPeerAttrs(Tail(group))

\* WgPeer as an Nla: a nested container of kind 0 holding the peer's attributes
WgPeer_value_len(peer) == Len(EmitPeerAttrs(peer))
WgPeer_buffer_len(peer) == NlaBufferLen(WgPeer_value_len(peer))
WgPeer_record(peer) == NlaRecord(0, TRUE, EmitPeerAttrs(peer))

(***************************************************************************)
(* Writes into a destination slice.  A slice that was never written holds  *)
(* Untouched in every place.                                               *)
(***************************************************************************)
Panic == [panic |-> TRUE, buf |-> <<>>]
Written(b) == [panic |-> FALSE, buf |-> b]

\* <[u8]>::copy_from_slice: the two slices must have the same length
copy_from_slice(dst, bytes) ==
    IF Len(dst) # Len(bytes) THEN Panic ELSE Written(bytes)

\* a write of `bytes` over the first Len(bytes) places of dst (dst[..n], or
\* byteorder's write_u16 / write_u32): dst must be at least that long
write_prefix(dst, bytes) ==
    IF Len(dst) < Len(bytes) THEN Panic
    ELSE Written(bytes \o From(dst, Len(bytes)))

\* Nla::emit of a WgPeer into the slice it is handed
WgPeer_emit(peer, dst) == write_prefix(dst, WgPeer_record(peer))

(***************************************************************************)
(* WgDeviceAttrs (device.rs).  A value is a record of its variant, its     *)
(* payload (blob, text bytes, key bytes, or the digits of its integer) and *)
(* its peers.                                                              *)
(***************************************************************************)
DeviceAttr(variant, bytes) == [variant |-> variant, bytes |-> bytes, peers |-> <<>>]
Unspec(bytes) == DeviceAttr("Unspec", bytes)
IfIndex(v) == DeviceAttr("IfIndex", v)
IfName(s) == DeviceAttr("IfName", s)
PrivateKey(v) == DeviceAttr("PrivateKey", v)
PublicKey(v) == DeviceAttr("PublicKey", v)
ListenPort(v) == DeviceAttr("ListenPort", v)
Fwmark(v) == DeviceAttr("Fwmark", v)
Flags(v) == DeviceAttr("Flags", v)
Peers(nlas) == [variant |-> "Peers", bytes |-> <<>>, peers |-> nlas]

\* size_of_val of a u32, a u16 and a [u8; WG_KEY_LEN]
SIZE_OF_U32 == 4
SIZE_OF_U16 == 2

\* value_len with the name clamped to IFNAMSIZ - 1 bytes
value_len_IfName_clamped(v) == IF Len(v) > 15 THEN 16 ELSE Len(v) + 1

value_len_IfName(v) == Len(v) + 1

RECURSIVE SumBufferLen(_)
SumBufferLen(nlas) ==
    IF nlas = <<>> THEN 0
    ELSE WgPeer_buffer_len(nlas[1]) + SumBufferLen(Tail(nlas))

value_len_Peers(nlas) == SumBufferLen(nlas)

value_len(self) ==
    CASE self.variant = "Unspec" -> Len(self.bytes)
      [] self.variant = "IfIndex" -> SIZE_OF_U32
      [] self.variant = "IfName" -> value_len_IfName(self.bytes)
      [] self.variant = "PrivateKey" -> WG_KEY_LEN
      [] self.variant = "PublicKey" -> WG_KEY_LEN
      [] self.variant = "ListenPort" -> SIZE_OF_U16
      [] self.variant = "Fwmark" -> SIZE_OF_U32
      [] self.variant = "Peers" -> value_len_Peers(self.peers)
      [] self.variant = "Flags" -> SIZE_OF_U32

\* kind with Flags given Fwmark's tag
kind_duplicate_tag(self) ==
    CASE self.variant = "Unspec" -> WGDEVICE_A_UNSPEC
      [] self.variant = "IfIndex" -> WGDEVICE_A_IFINDEX
      [] self.variant = "IfName" -> WGDEVICE_A_IFNAME
      [] self.variant = "PrivateKey" -> WGDEVICE_A_PRIVATE_KEY
      [] self.variant = "PublicKey" -> WGDEVICE_A_PUBLIC_KEY
      [] self.variant = "ListenPort" -> WGDEVICE_A_LISTEN_PORT
      [] self.variant = "Fwmark" -> WGDEVICE_A_FWMARK
      [] self.variant = "Peers" -> WGDEVICE_A_PEERS
      [] self.variant = "Flags" -> WGDEVICE_A_FWMARK

kind(self) ==
    CASE self.variant = "Unspec" -> WGDEVICE_A_UNSPEC
      [] self.variant = "IfIndex" -> WGDEVICE_A_IFINDEX
      [] self.variant = "IfName" -> WGDEVICE_A_IFNAME
      [] self.variant = "PrivateKey" -> WGDEVICE_A_PRIVATE_KEY
      [] self.variant = "PublicKey" -> WGDEVICE_A_PUBLIC_KEY
      [] self.variant = "ListenPort" -> WGDEVICE_A_LISTEN_PORT
      [] self.variant = "Fwmark" -> WGDEVICE_A_FWMARK
      [] self.variant = "Peers" -> WGDEVICE_A_PEERS
      [] self.variant = "Flags" -> WGDEVICE_A_FLAGS

\* emit_value for IfName without the write of the terminator
emit_value_IfName_no_terminator(s, buf) ==
    IF Len(buf) < Len(s) THEN Panic
    ELSE Written(s \o From(buf, Len(s)))

\* buffer[..s.len()].copy_from_slice(s.as_bytes()); buffer[s.len()] = 0
emit_value_IfName(s, buf) ==
    IF Len(buf) < Len(s) + 1 THEN Panic
    ELSE Written(s \o <<0>> \o From(buf, Len(s) + 1))

\* for op in nlas { op.emit(&mut buffer[len..]); len += op.buffer_len(); }
RECURSIVE emit_value_PeersLoop(_, _, _)
emit_value_PeersLoop(nlas, buf, len) ==
    IF nlas = <<>> THEN Written(buf)
    ELSE IF len > Len(buf) THEN Panic
    ELSE LET w == WgPeer_emit(nlas[1], From(buf, len))
         IN  IF w.panic THEN Panic
             ELSE emit_value_PeersLoop(Tail(nlas), SubSeq(buf, 1, len) \o w.buf,
                                       len + WgPeer_buffer_len(nlas[1]))

\* the loop advancing by value_len() instead of buffer_len()
RECURSIVE emit_value_PeersLoop_value_len(_, _, _)
emit_value_PeersLoop_value_len(nlas, buf, len) ==
    IF nlas = <<>> THEN Written(buf)
    ELSE IF len > Len(buf) THEN Panic
    ELSE LET w == WgPeer_emit(nlas[1], From(buf, len))
         IN  IF w.panic THEN Panic
             ELSE emit_value_PeersLoop_value_len(Tail(nlas), SubSeq(buf, 1, len) \o w.buf,
                                                 len + WgPeer_value_len(nlas[1]))

emit_value_Peers_value_len(nlas, buf) == emit_value_PeersLoop_value_len(nlas, buf, 0)

emit_value_Peers(nlas, buf) == emit_value_PeersLoop(nlas, buf, 0)

emit_value(self, buf) ==
    CASE self.variant = "Unspec" -> copy_from_slice(buf, self.bytes)
      [] self.variant = "IfIndex" -> write_prefix(buf, NativeEndian(self.bytes))
      [] self.variant = "IfName" -> emit_value_IfName(self.bytes, buf)
      [] self.variant = "PrivateKey" -> copy_from_slice(buf, self.bytes)
      [] self.variant = "PublicKey" -> copy_from_slice(buf, self.bytes)
      [] self.variant = "ListenPort" -> write_prefix(buf, NativeEndian(self.bytes))
      [] self.variant = "Fwmark" -> write_prefix(buf, NativeEndian(self.bytes))
      [] self.variant = "Peers" -> emit_value_Peers(self.peers, buf)
      [] self.variant = "Flags" -> write_prefix(buf, NativeEndian(self.bytes))

is_nested(self) == self.variant = "Peers"

\* Nla::buffer_len and Nla::emit for a WgDeviceAttrs: the header, emit_value
\* on the value slice the header's length delimits, then the zero padding
buffer_len(self) == NlaBufferLen(value_len(self))

Nla_emit(self, buf) ==
    LET vlen == value_len(self)
        length == (vlen + NLA_HEADER_SIZE) % U16_RANGE
        padding == nla_align(vlen) - vlen
    IN  IF Len(buf) < NLA_HEADER_SIZE \/ length < NLA_HEADER_SIZE \/ length > Len(buf)
        THEN Panic
        ELSE LET w == emit_value(self, SubSeq(buf, NLA_HEADER_SIZE + 1, length))
             IN  IF w.panic \/ NLA_HEADER_SIZE + vlen + padding > Len(buf) THEN Panic
                 ELSE Written(NlaHeader(kind(self), is_nested(self), vlen) \o w.buf
                                  \o Fill(0, padding)
                                  \o From(buf, NLA_HEADER_SIZE + vlen + padding))

(***************************************************************************)
(* WgDeviceAttrs::parse, one operator per match arm.                       *)
(***************************************************************************)
parse_Unspec(payload) == Ok(Unspec(payload))

parse_IfIndex(payload) ==
    LET r == Context(parse_u32(payload), "invalid WGDEVICE_A_IFINDEX value")
    IN  IF r.ok THEN Ok(IfIndex(r.val)) ELSE r

\* parse of IfName that keeps the terminator in the text
parse_IfName_keep_terminator(payload) ==
    IF from_utf8_ok(payload) THEN Ok(IfName(payload))
    ELSE Err("invalid WGDEVICE_A_IFNAME value")

\* parse of IfName that insists on the terminator
parse_IfName_strict(payload) ==
    IF payload # <<>> /\ payload[Len(payload)] = 0 /\ from_utf8_ok(payload)
    THEN Ok(IfName(Front(payload)))
    ELSE Err("invalid WGDEVICE_A_IFNAME value")

parse_IfName(payload) ==
    LET r == Context(parse_string(payload), "invalid WGDEVICE_A_IFNAME value")
    IN  IF r.ok THEN Ok(IfName(r.val)) ELSE r

parse_PrivateKey(payload) ==
    LET r == Context(try_into_key(payload), "invalid WGDEVICE_A_PRIVATE_KEY value")
    IN  IF r.ok THEN Ok(PrivateKey(r.val)) ELSE r

\* parse of PublicKey that takes the first WG_KEY_LEN bytes of a longer payload
parse_PublicKey_lenient(payload) ==
    IF Len(payload) < WG_KEY_LEN THEN Err("invalid WGDEVICE_A_PUBLIC_KEY value")
    ELSE Ok(PublicKey(SubSeq(payload, 1, WG_KEY_LEN)))

parse_PublicKey(payload) ==
    LET r == Context(try_into_key(payload), "invalid WGDEVICE_A_PUBLIC_KEY value")
    IN  IF r.ok THEN Ok(PublicKey(r.val)) ELSE r

parse_ListenPort(payload) ==
    LET r == Context(parse_u16(payload), "invalid WGDEVICE_A_LISTEN_PORT value")
    IN  IF r.ok THEN Ok(ListenPort(r.val)) ELSE r

parse_Fwmark(payload) ==
    LET r == Context(parse_u32(payload), "invalid WGDEVICE_A_FWMARK value")
    IN  IF r.ok THEN Ok(Fwmark(r.val)) ELSE r

parse_Flags(payload) ==
    LET r == Context(parse_u32(payload), "invalid WGDEVICE_A_FLAGS value")
    IN  IF r.ok THEN Ok(Flags(r.val)) ELSE r

error_msg == "failed to parse WGDEVICE_A_PEERS"

\* the inner loop: the attributes of one peer container, or the first error
RECURSIVE parse_PeerGroup(_, _)
parse_PeerGroup(items, group) ==
    IF items = <<>> THEN Ok(group)
    ELSE LET nla == Context(items[1], error_msg)
         IN  IF ~nla.ok THEN Err(error_msg)
             ELSE LET parsed == Context(WgPeerAttrs_parse(items[1].buf), error_msg)
                  IN  IF ~parsed.ok THEN parsed
                      ELSE parse_PeerGroup(Tail(items), Append(group, parsed.val))

\* the outer loop: one group per peer container, or the first error
RECURSIVE parse_PeersLoop(_, _)
parse_PeersLoop(items, peers) ==
    IF items = <<>> THEN Ok(Peers(peers))
    ELSE LET nlas == Context(items[1], error_msg)
         IN  IF ~nlas.ok THEN Err(error_msg)
             ELSE LET group == parse_PeerGroup(
                                   NlasIterator(NlaBuffer_value(items[1].buf), 0), <<>>)
                  IN  IF ~group.ok THEN group
                      ELSE parse_PeersLoop(Tail(items), Append(peers, group.val))

\* the loops leaving at the first error with what they have decoded
RECURSIVE parse_PeerGroup_partial(_, _)
parse_PeerGroup_partial(items, group) ==
    IF items = <<>> THEN Ok(group)
    ELSE IF ~items[1].ok THEN Ok(group)
    ELSE LET parsed == WgPeerAttrs_parse(items[1].buf)
         IN  IF ~parsed.ok THEN Ok(group)
             ELSE parse_PeerGroup_partial(Tail(items), Append(group, parsed.val))

RECURSIVE parse_PeersLoop_partial(_, _)
parse_PeersLoop_partial(items, peers) ==
    IF items = <<>> THEN Ok(Peers(peers))
    ELSE IF ~items[1].ok THEN Ok(Peers(peers))
    ELSE LET group == parse_PeerGroup_partial(
                          NlasIterator(NlaBuffer_value(items[1].buf), 0), <<>>)
         IN  parse_PeersLoop_partial(Tail(items), Append(peers, group.val))

parse_Peers_partial(payload) == parse_PeersLoop_partial(NlasIterator(payload, 0), <<>>)

parse_Peers(payload) == parse_PeersLoop(NlasIterator(payload, 0), <<>>)

\* an unknown kind skipped as an empty Unspec
parse_unknown_skip(k) == Ok(Unspec(<<>>))

parse_unknown(k) == ErrKind("invalid NLA kind", k)

parse(buf) ==
    LET payload == NlaBuffer_value(buf)
        k == NlaBuffer_kind(buf)
    IN  CASE k = WGDEVICE_A_UNSPEC -> parse_Unspec(payload)
          [] k = WGDEVICE_A_IFINDEX -> parse_IfIndex(payload)
          [] k = WGDEVICE_A_IFNAME -> parse_IfName(payload)
          [] k = WGDEVICE_A_PRIVATE_KEY -> parse_PrivateKey(payload)
          [] k = WGDEVICE_A_PUBLIC_KEY -> parse_PublicKey(payload)
          [] k = WGDEVICE_A_LISTEN_PORT -> parse_ListenPort(payload)
          [] k = WGDEVICE_A_FWMARK -> parse_Fwmark(payload)
          [] k = WGDEVICE_A_PEERS -> parse_Peers(payload)
          [] k = WGDEVICE_A_FLAGS -> parse_Flags(payload)
          [] OTHER -> parse_unknown(k)

(***************************************************************************)
(* Inputs.                                                                 *)
(***************************************************************************)
U32Samples == {<<0, 0, 0, 0>>, <<0, 0, 0, 1>>, <<1, 2, 3, 4>>, <<255, 255, 255, 255>>}
\* 0, 256, 51820 (the example's listen port), 65535
U16Samples == {<<0, 0>>, <<1, 0>>, <<202, 108>>, <<255, 255>>}
KeySamples == {Fill(0, WG_KEY_LEN), Fill(255, WG_KEY_LEN), [i \in 1..WG_KEY_LEN |-> i]}
Blobs == SeqsUpTo(ByteSamples, MaxBlob)
Fills == {Fill(b, n) : b \in ByteSamples, n \in 0..MaxFill}
Names == {s \in Blobs \cup Fills : from_utf8_ok(s)}

\* the example's allowed IPs: 0.0.0.0/0 and ::/0
AllowedIpV4 ==
    <<AllowedIpAttr("Family", U16Digits(AF_INET)),
      AllowedIpAttr("IpAddr", Fill(0, 4)),
      AllowedIpAttr("Cidr", <<0>>)>>
AllowedIpV6 ==
    <<AllowedIpAttr("Family", U16Digits(AF_INET6)),
      AllowedIpAttr("IpAddr", Fill(0, 16)),
      AllowedIpAttr("Cidr", <<0>>)>>

PeerSamples ==
    { <<>>,
      <<PeerAttr("PublicKey", [i \in 1..WG_KEY_LEN |-> i])>>,
      <<PeerAttr("Unspec", <<97>>),
        PeerAttr("Endpoint", <<202, 108, 10, 10, 10, 1>>),
        AllowedIps(<<AllowedIpV4, AllowedIpV6>>)>>,
      <<PeerAttr("Flags", <<0, 0, 0, 1>>),
        PeerAttr("PersistentKeepalive", <<0, 25>>),
        AllowedIps(<<>>)>> }

AttrSamples ==
    {Unspec(b) : b \in Blobs}
        \cup {IfIndex(v) : v \in U32Samples}
        \cup {IfName(s) : s \in Names}
        \cup {PrivateKey(k) : k \in KeySamples}
        \cup {PublicKey(k) : k \in KeySamples}
        \cup {ListenPort(v) : v \in U16Samples}
        \cup {Fwmark(v) : v \in U32Samples}
        \cup {Peers(nlas) : nlas \in SeqsUpTo(PeerSamples, MaxPeers)}
        \cup {Flags(v) : v \in U32Samples}

\* tags as they can stand in a received header: the nine kinds, kinds outside
\* the enumeration, and kinds with the header's flag bits set
RawKinds ==
    (0..11) \cup {NLA_TYPE_MASK}
        \cup {NLA_F_NESTED + k : k \in {WGDEVICE_A_IFNAME, WGDEVICE_A_PEERS, 9}}
        \cup {NLA_F_NET_BYTEORDER + k : k \in {WGDEVICE_A_IFINDEX, 12}}
RawPayloads == Blobs \cup Fills

NotParsed == Err("not parsed")

(***************************************************************************)
(* The state machine: a value is encoded into a record (Emit), or a record *)
(* arrives from the wire (Receive); an encoded record may be cut short or  *)
(* have one payload byte changed in transit; the record is then parsed.    *)
(***************************************************************************)
Init ==
    /\ bigEndian \in BOOLEAN
    /\ pc = "new"
    /\ \/ origin = "value" /\ attr \in AttrSamples
       \/ origin = "wire" /\ attr = Unspec(<<>>)
    /\ buffer = <<>>
    /\ emitPanic = FALSE
    /\ damaged = FALSE
    /\ result = NotParsed

\* the caller sizes the destination with buffer_len() and calls emit()
Emit ==
    /\ pc = "new" /\ origin = "value"
    /\ LET w == Nla_emit(attr, Fill(Untouched, buffer_len(attr)))
       IN  /\ emitPanic' = w.panic
           /\ buffer' = w.buf
    /\ pc' = "emitted"
    /\ UNCHANGED <<bigEndian, origin, attr, damaged, result>>

\* a well-formed record with any tag and payload arrives
Receive ==
    /\ pc = "new" /\ origin = "wire"
    /\ \E rawkind \in RawKinds, payload \in RawPayloads :
           buffer' = NativeEndian(U16Digits(Len(payload) + NLA_HEADER_SIZE))
                         \o NativeEndian(U16Digits(rawkind)) \o payload
                         \o Fill(0, nla_align(Len(payload)) - Len(payload))
    /\ pc' = "emitted"
    /\ UNCHANGED <<bigEndian, origin, attr, emitPanic, damaged, result>>

\* the record arrives with only the first n bytes of its payload
Truncate ==
    /\ pc = "emitted" /\ origin = "value" /\ ~emitPanic /\ ~damaged
    /\ LET value == NlaBuffer_value(buffer)
       IN  \E n \in 0..(Len(value) - 1) :
               buffer' = NativeEndian(U16Digits(n + NLA_HEADER_SIZE))
                             \o SubSeq(buffer, 3, 4) \o SubSeq(value, 1, n)
    /\ damaged' = TRUE
    /\ UNCHANGED <<bigEndian, pc, origin, attr, emitPanic, result>>

\* the record arrives with one payload byte changed
Corrupt ==
    /\ pc = "emitted" /\ origin = "value" /\ ~emitPanic /\ ~damaged
    /\ \E i \in 1..Len(NlaBuffer_value(buffer)) :
           \E b \in CorruptBytes \ {buffer[NLA_HEADER_SIZE + i]} :
               buffer' = [buffer EXCEPT ![NLA_HEADER_SIZE + i] = b]
    /\ damaged' = TRUE
    /\ UNCHANGED <<bigEndian, pc, origin, attr, emitPanic, result>>

Parse ==
    /\ pc = "emitted" /\ ~emitPanic
    /\ result' = parse(buffer)
    /\ pc' = "parsed"
    /\ UNCHANGED <<bigEndian, origin, attr, buffer, emitPanic, damaged>>

Next == Emit \/ Receive \/ Truncate \/ Corrupt \/ Parse

Spec == Init /\ [][Next]_vars

(***************************************************************************)
(* Properties.                                                             *)
(***************************************************************************)
Intact == origin = "value" /\ ~damaged
Payload == NlaBuffer_value(buffer)
RecordKind == NlaBuffer_kind(buffer)

\* C1 (round trip): a value encoded as one record (never a panic) and parsed
\* back gives Ok of an equal value, the peers of a Peers value in their order.
C1_RoundTrip ==
    /\ (pc = "emitted" /\ Intact) => ~emitPanic
    /\ (pc = "parsed" /\ Intact) => (result.ok /\ result.val = attr)

C1_Witness ==
    /\ pc = "parsed" /\ Intact
    /\ attr.variant = "Peers" /\ Len(attr.peers) = 2
    /\ attr.peers[1] # attr.peers[2] /\ attr.peers[2] # <<>>
    /\ result.ok /\ result.val.peers = attr.peers

\* the encoded length of a sequence of peers: each one's record, header,
\* payload and padding
RECURSIVE C2_SumRecords(_)
C2_SumRecords(nlas) ==
    IF nlas = <<>> THEN 0
    ELSE Len(WgPeer_record(nlas[1])) + C2_SumRecords(Tail(nlas))

C2_ExpectedLen(a) ==
    CASE a.variant \in {"IfIndex", "Fwmark", "Flags"} -> 4
      [] a.variant = "ListenPort" -> 2
      [] a.variant \in {"PrivateKey", "PublicKey"} -> 32
      [] a.variant = "Unspec" -> Len(a.bytes)
      [] a.variant = "IfName" -> Len(a.bytes) + 1
      [] a.variant = "Peers" -> C2_SumRecords(a.peers)

C2_WrittenBytes == {i \in 1..Len(Payload) : Payload[i] # Untouched}

\* C2 (length agreement): emit_value, handed value_len bytes, writes every
\* one of them and none beyond; value_len is 4, 2, 32, the blob's length, the
\* text's length + 1, or the sum of the peers' record lengths, and each peer
\* lies at the offset that is the sum of the record lengths before it.
C2_LengthAgreement ==
    (pc = "emitted" /\ Intact) =>
        /\ ~emitPanic
        /\ value_len(attr) = C2_ExpectedLen(attr)
        /\ Cardinality(C2_WrittenBytes) = C2_ExpectedLen(attr)
        /\ \A k \in 1..Len(attr.peers) :
               LET offset == C2_SumRecords(SubSeq(attr.peers, 1, k - 1))
                   record == WgPeer_record(attr.peers[k])
               IN  SubSeq(Payload, offset + 1, offset + Len(record)) = record

C2_Witness ==
    /\ pc = "emitted" /\ Intact /\ ~emitPanic
    /\ attr.variant = "Peers" /\ Len(attr.peers) = 2
    /\ attr.peers[1] # <<>> /\ attr.peers[2] # <<>>
    /\ Len(Payload) = C2_SumRecords(attr.peers)
    /\ LET offset == Len(WgPeer_record(attr.peers[1]))
       IN  SubSeq(Payload, offset + 1, Len(Payload)) = WgPeer_record(attr.peers[2])

\* the size a fixed-size kind requires, NoKind for the other kinds
C3_RequiredSize(k) ==
    CASE k \in {WGDEVICE_A_PRIVATE_KEY, WGDEVICE_A_PUBLIC_KEY} -> 32
      [] k \in {WGDEVICE_A_IFINDEX, WGDEVICE_A_FWMARK, WGDEVICE_A_FLAGS} -> 4
      [] k = WGDEVICE_A_LISTEN_PORT -> 2
      [] OTHER -> NoKind

\* C3 (length mismatch): a record of a fixed-size kind whose payload is
\* shorter or longer than the required size parses to an error.
C3_RejectsLengthMismatch ==
    (/\ pc = "parsed"
     /\ C3_RequiredSize(RecordKind) # NoKind
     /\ Len(Payload) # C3_RequiredSize(RecordKind)) => ~result.ok

C3_Witness ==
    /\ pc = "parsed"
    /\ RecordKind = WGDEVICE_A_PUBLIC_KEY
    /\ Len(Payload) = 33
    /\ ~result.ok

C4_DeviceKinds ==
    {WGDEVICE_A_UNSPEC, WGDEVICE_A_IFINDEX, WGDEVICE_A_IFNAME, WGDEVICE_A_PRIVATE_KEY,
     WGDEVICE_A_PUBLIC_KEY, WGDEVICE_A_LISTEN_PORT, WGDEVICE_A_FWMARK, WGDEVICE_A_PEERS,
     WGDEVICE_A_FLAGS}

\* C4 (unknown tag): a record whose kind is none of the nine device kinds
\* parses to the "invalid NLA kind" error carrying that kind, whatever the
\* payload.
C4_RejectsUnknownKind ==
    (pc = "parsed" /\ RecordKind \notin C4_DeviceKinds) =>
        /\ ~result.ok
        /\ result.err = "invalid NLA kind"
        /\ result.kind = RecordKind

C4_Witness ==
    /\ pc = "parsed"
    /\ RecordKind = 11
    /\ Payload # <<>>
    /\ ~result.ok /\ result.kind = 11

\* a record header that fits the bytes it stands in
C5_HeaderOk(b) ==
    /\ Len(b) >= NLA_HEADER_SIZE
    /\ NlaBuffer_length(b) >= NLA_HEADER_SIZE
    /\ NlaBuffer_length(b) <= Len(b)

C5_Rest(b) ==
    IF nla_align(NlaBuffer_length(b)) >= Len(b) THEN <<>>
    ELSE From(b, nla_align(NlaBuffer_length(b)))

\* a peer container's payload: well-formed records, each a peer attribute
\* that parses
RECURSIVE C5_GroupOk(_)
C5_GroupOk(b) ==
    \/ b = <<>>
    \/ /\ C5_HeaderOk(b)
       /\ WgPeerAttrs_parse(b).ok
       /\ C5_GroupOk(C5_Rest(b))

\* a Peers payload: well-formed peer containers, each with a good payload
RECURSIVE C5_PeersOk(_)
C5_PeersOk(b) ==
    \/ b = <<>>
    \/ /\ C5_HeaderOk(b)
       /\ C5_GroupOk(NlaBuffer_value(b))
       /\ C5_PeersOk(C5_Rest(b))

\* C5 (nested failure): a Peers record with a malformed record at either
\* level, or a peer attribute that does not parse, parses to an error; no
\* Peers value with the peers decoded so far comes back.
C5_NestedFailureAborts ==
    (pc = "parsed" /\ RecordKind = WGDEVICE_A_PEERS /\ ~C5_PeersOk(Payload)) =>
        (~result.ok /\ result.err = error_msg)

\* the first peer container is good and a later one is not
C5_Witness ==
    /\ pc = "parsed" /\ RecordKind = WGDEVICE_A_PEERS
    /\ C5_HeaderOk(Payload)
    /\ NlaBuffer_value(Payload) # <<>>
    /\ C5_GroupOk(NlaBuffer_value(Payload))
    /\ ~C5_PeersOk(Payload)
    /\ ~result.ok

\* C6 (interface-name layout): IfName(s) is encoded as the bytes of s and one
\* zero byte, len(s) + 1 bytes; a payload ending in the zero byte whose other
\* bytes are text decodes to those other bytes.
C6_IfNameLayout ==
    /\ (pc = "emitted" /\ Intact /\ attr.variant = "IfName") =>
           (~emitPanic /\ Payload = attr.bytes \o <<0>>)
    /\ (/\ pc = "parsed" /\ RecordKind = WGDEVICE_A_IFNAME
        /\ Payload # <<>> /\ Payload[Len(Payload)] = 0
        /\ from_utf8_ok(Front(Payload))) =>
           (result.ok /\ result.val = IfName(Front(Payload)))

C6_Witness ==
    /\ pc = "parsed" /\ Intact
    /\ attr = IfName(<<97, 97>>)
    /\ Payload = <<97, 97, 0>>
    /\ result.ok /\ result.val = IfName(<<97, 97>>)

\* C7 as claimed: an interface-name record whose payload is not valid text,
\* or does not end in the zero terminator, parses to an error.
C7_Original ==
    (/\ pc = "parsed" /\ RecordKind = WGDEVICE_A_IFNAME
     /\ \/ ~from_utf8_ok(Payload)
        \/ Payload = <<>>
        \/ Payload[Len(Payload)] # 0) => ~result.ok

\* C7 (text decode failure), amended: an interface-name record parses to an
\* error exactly when its payload is not valid UTF-8; a payload without the
\* terminator is no error and decodes to the whole payload.
C7_Amended ==
    (pc = "parsed" /\ RecordKind = WGDEVICE_A_IFNAME) =>
        /\ result.ok <=> from_utf8_ok(Payload)
        /\ (/\ from_utf8_ok(Payload)
            /\ (Payload = <<>> \/ Payload[Len(Payload)] # 0)) =>
               (result.ok /\ result.val = IfName(Payload))

C7_Witness ==
    /\ pc = "parsed" /\ RecordKind = WGDEVICE_A_IFNAME
    /\ Payload = <<97, 97>>
    /\ result.ok /\ result.val = IfName(<<97, 97>>)

\* C8 as claimed: an encoded IfName payload has at most 16 bytes and a
\* decoded IfName at most 15.
C8_Original ==
    /\ (pc = "emitted" /\ Intact /\ attr.variant = "IfName" /\ ~emitPanic) =>
           Len(Payload) <= 16
    /\ (pc = "parsed" /\ RecordKind = WGDEVICE_A_IFNAME /\ result.ok) =>
           Len(result.val.bytes) <= 15

\* C8 (interface-name bound), amended: the codec bounds no name.  A name of
\* any length is encoded, without a panic, into len + 1 bytes (at most 16
\* exactly when the name has at most 15) and decodes back; a decoded name has
\* one byte less than a payload that ends in the terminator and as many bytes
\* as one that does not.
C8_Amended ==
    /\ (pc = "emitted" /\ Intact /\ attr.variant = "IfName") =>
           /\ ~emitPanic
           /\ Len(Payload) = Len(attr.bytes) + 1
           /\ Len(Payload) <= 16 <=> Len(attr.bytes) <= 15
    /\ (pc = "parsed" /\ Intact /\ attr.variant = "IfName") =>
           (result.ok /\ Len(result.val.bytes) = Len(attr.bytes))
    /\ (pc = "parsed" /\ RecordKind = WGDEVICE_A_IFNAME /\ result.ok) =>
           Len(result.val.bytes) =
               IF Payload # <<>> /\ Payload[Len(Payload)] = 0
               THEN Len(Payload) - 1 ELSE Len(Payload)

C8_Witness ==
    /\ pc = "parsed" /\ Intact
    /\ attr.variant = "IfName" /\ Len(attr.bytes) = 16
    /\ Len(Payload) = 17
    /\ result.ok /\ Len(result.val.bytes) = 16

\* one value of each variant
C10_Variants ==
    {Unspec(<<>>), IfIndex(<<0, 0, 0, 0>>), IfName(<<>>), PrivateKey(Fill(0, 32)),
     PublicKey(Fill(0, 32)), ListenPort(<<0, 0>>), Fwmark(<<0, 0, 0, 0>>), Peers(<<>>),
     Flags(<<0, 0, 0, 0>>)}

\* a header tag without its two flag bits
C10_StripFlags(raw) ==
    LET noNested == IF raw >= 32768 THEN raw - 32768 ELSE raw
    IN  IF noNested >= 16384 THEN noNested - 16384 ELSE noNested

\* C10 (tag consistency): kind() gives the nine variants nine tags; a value
\* that parse returns has the kind of the record's tag without its flag bits;
\* an emitted header has the nested flag exactly for Peers, and an emitted
\* Peers record parses as Peers.
C10_TagConsistency ==
    /\ \A a, b \in C10_Variants : kind(a) = kind(b) => a = b
    /\ \A a \in C10_Variants : is_nested(a) <=> a.variant = "Peers"
    /\ (pc = "parsed" /\ result.ok) =>
           kind(result.val) = C10_StripFlags(NlaBuffer_rawkind(buffer))
    /\ (pc = "emitted" /\ Intact /\ ~emitPanic) =>
           (NlaBuffer_nested_flag(buffer) <=> attr.variant = "Peers")
    /\ (pc = "parsed" /\ Intact /\ attr.variant = "Peers") =>
           (result.ok /\ result.val.variant = "Peers")

C10_Witness ==
    /\ pc = "parsed" /\ Intact
    /\ attr.variant = "Peers" /\ attr.peers # <<>>
    /\ NlaBuffer_rawkind(buffer) = 32768 + 8
    /\ result.ok /\ result.val.variant = "Peers"

====
